---------------------------- MODULE Spec2Model ----------------------------
(***************************************************************************)
(* A model of the panel tree of lil-gui (src/src/GUI.js): the GUI class    *)
(* with its children / controllers / folders lists, add / addColor /       *)
(* addFolder, save / load, open / close, reset, controllersRecursive,      *)
(* _callOnOpenClose and destroy.                                           *)
(*                                                                         *)
(* Panels and controllers are numbered in creation order.  guis[g] is the  *)
(* g-th GUI object that was constructed (guis[1] is the root), ctrls[c]    *)
(* the c-th controller.  Objects are never freed: a destroyed panel is     *)
(* still an object the caller may hold and call methods on.  frames is the *)
(* browser's list of animation frame callbacks that were requested and     *)
(* have not run yet.  stylesInjected is the module's flag of that name and *)
(* styleSheets counts the style sheets _injectStyles has put into the      *)
(* page.                                                                   *)
(***************************************************************************)
EXTENDS Integers, Sequences, FiniteSets, TLC

VARIABLES guis, ctrls, saved, calls, frames, stylesInjected, styleSheets, lastOp

vars == <<guis, ctrls, saved, calls, frames, stylesInjected, styleSheets, lastOp>>

---------------------------------------------------------------------------
(* Bounds of the model *)

MaxGuis == 3

MaxCtrls == 2

(* The folders and controllers of the trees that are saved and loaded,     *)
(* and of those that are opened animated.                                  *)
MaxSaveObjects == 3

---------------------------------------------------------------------------
(* JavaScript values.  A value is [t, v]: t is its type (what typeof       *)
(* yields, but for null and arrays, which have kinds of their own here)    *)
(* and v tells two values of one type apart.                               *)

Val(t, v) == [t |-> t, v |-> v]

Undefined == Val("undefined", 0)

Null == Val("null", 0)

(* The value every plain object inherits under the keys of                 *)
(* Object.prototype ("constructor", "toString", ...): a function.          *)
ProtoFunction == Val("function", 9)

(* Keys a plain object literal {} inherits from Object.prototype.          *)
ObjectPrototypeKeys == {"constructor", "toString", "valueOf", "hasOwnProperty"}

(* A plain object is Val("object", map), map a function from its own keys  *)
(* to values.  A snapshot is the object { controllers: {..}, folders:      *)
(* {..} }.                                                                 *)
Obj(map) == Val("object", map)

EmptyMap == [k \in {} |-> Undefined]

(* key in obj, for a plain object obj: own and inherited keys.             *)
In(key, obj) == key \in DOMAIN obj.v \/ key \in ObjectPrototypeKeys

(* obj[key] or obj.key.  A plain object answers with its own property,     *)
(* then with the inherited one; a function value has neither a             *)
(* "controllers" nor a "folders" property.                                 *)
Get(obj, key) ==
    IF obj.t = "object" /\ key \in DOMAIN obj.v THEN obj.v[key]
    ELSE IF obj.t = "object" /\ key \in ObjectPrototypeKeys THEN ProtoFunction
    ELSE Undefined

(* if ( x ) for the values tested in load: objects are truthy, undefined   *)
(* is not.                                                                 *)
Truthy(x) == x.t \in {"object", "function"}

---------------------------------------------------------------------------
(* Sequence helpers with the semantics of the Array methods used.          *)

(* Array.prototype.indexOf: the first index (1-based here), 0 for -1.      *)
IndexOf(s, x) ==
    IF \E i \in 1..Len(s) : s[i] = x
    THEN CHOOSE i \in 1..Len(s) : s[i] = x /\ \A j \in 1..(i - 1) : s[j] # x
    ELSE 0

RemoveAt(s, i) == [j \in 1..(Len(s) - 1) |-> IF j < i THEN s[j] ELSE s[j + 1]]

(* s.splice( s.indexOf( x ), 1 ) with no test of the index: indexOf gives  *)
(* -1 when x is absent, and splice( -1, 1 ) removes the LAST element.      *)
SpliceIndexOf(s, x) ==
    IF IndexOf(s, x) # 0 THEN RemoveAt(s, IndexOf(s, x))
    ELSE IF Len(s) > 0 THEN RemoveAt(s, Len(s))
    ELSE s

(* index = s.indexOf( x ); if ( index !== -1 ) s.splice( index, 1 )        *)
SpliceIfFound(s, x) ==
    IF IndexOf(s, x) # 0 THEN RemoveAt(s, IndexOf(s, x)) ELSE s

Range(s) == {s[i] : i \in 1..Len(s)}

---------------------------------------------------------------------------
(* The object graph.  The operators below take and return a heap           *)
(* h = [guis, ctrls, calls, frames, stylesInjected, styleSheets]: the GUI  *)
(* objects, the controller objects, the log of the calls made on           *)
(* controllers and folders during the current API call, the pending        *)
(* animation frame callbacks, and the state of the page's styles.  Heap    *)
(* builds the heap of a page whose script has just been loaded.            *)

Heap(g, c, l) ==
    [guis |-> g, ctrls |-> c, calls |-> l, frames |-> <<>>,
     stylesInjected |-> FALSE, styleSheets |-> 0]

Here ==
    [Heap(guis, ctrls, <<>>) EXCEPT !.frames = frames,
                                    !.stylesInjected = stylesInjected,
                                    !.styleSheets = styleSheets]

Call(fn, kind, id) == [fn |-> fn, kind |-> kind, id |-> id]

Log(h, fn, kind, id) == [h EXCEPT !.calls = Append(@, Call(fn, kind, id))]

Child(kind, id) == [kind |-> kind, id |-> id]

(* A constructor that forgets this.parent.folders.push( this ).            *)
GUI_NoFoldersPush(h, parent, title, closeFolders, injectStyles) ==
    LET this == Len(h.guis) + 1
        obj == [parent |-> parent,
                root |-> IF parent # 0 THEN h.guis[parent].root ELSE this,
                children |-> <<>>,
                controllers |-> <<>>,
                folders |-> <<>>,
                _closed |-> FALSE,
                _hidden |-> FALSE,
                aria_expanded |-> TRUE,
                class_closed |-> FALSE,
                _title |-> title,
                _closeFolders |-> IF parent # 0 THEN FALSE ELSE closeFolders]
        g1 == Append(h.guis, obj)
    IN  IF parent # 0
        THEN [h EXCEPT !.guis =
                [g1 EXCEPT ![parent].children = Append(@, Child("gui", this))]]
        ELSE IF ~h.stylesInjected /\ injectStyles
        THEN [h EXCEPT !.guis = g1,
                       !.styleSheets = @ + 1,
                       !.stylesInjected = TRUE]
        ELSE [h EXCEPT !.guis = g1]

(* A constructor that does not look at the flag stylesInjected.            *)
GUI_InjectsAlways(h, parent, title, closeFolders, injectStyles) ==
    LET this == Len(h.guis) + 1
        obj == [parent |-> parent,
                root |-> IF parent # 0 THEN h.guis[parent].root ELSE this,
                children |-> <<>>,
                controllers |-> <<>>,
                folders |-> <<>>,
                _closed |-> FALSE,
                _hidden |-> FALSE,
                aria_expanded |-> TRUE,
                class_closed |-> FALSE,
                _title |-> title,
                _closeFolders |-> IF parent # 0 THEN FALSE ELSE closeFolders]
        g1 == Append(h.guis, obj)
    IN  IF parent # 0
        THEN [h EXCEPT !.guis =
                [g1 EXCEPT ![parent].children = Append(@, Child("gui", this)),
                           ![parent].folders = Append(@, this)]]
        ELSE IF injectStyles
        THEN [h EXCEPT !.guis = g1,
                       !.styleSheets = @ + 1,
                       !.stylesInjected = TRUE]
        ELSE [h EXCEPT !.guis = g1]

(* new GUI( { parent, title, closeFolders, injectStyles } ).  parent = 0   *)
(* stands for no parent.  With a parent the constructor returns before it  *)
(* reaches the style sheet and this._closeFolders = closeFolders, which    *)
(* leaves that field undefined (falsy: FALSE here).  aria_expanded is the  *)
(* attribute of $title and class_closed tells whether                      *)
(* domElement.classList holds 'closed'.                                    *)
GUI(h, parent, title, closeFolders, injectStyles) ==
    LET this == Len(h.guis) + 1
        obj == [parent |-> parent,
                root |-> IF parent # 0 THEN h.guis[parent].root ELSE this,
                children |-> <<>>,
                controllers |-> <<>>,
                folders |-> <<>>,
                _closed |-> FALSE,
                _hidden |-> FALSE,
                aria_expanded |-> TRUE,
                class_closed |-> FALSE,
                _title |-> title,
                _closeFolders |-> IF parent # 0 THEN FALSE ELSE closeFolders]
        g1 == Append(h.guis, obj)
    IN  IF parent # 0
        THEN [h EXCEPT !.guis =
                [g1 EXCEPT ![parent].children = Append(@, Child("gui", this)),
                           ![parent].folders = Append(@, this)]]
        ELSE IF ~h.stylesInjected /\ injectStyles
        THEN [h EXCEPT !.guis = g1,
                       !.styleSheets = @ + 1,
                       !.stylesInjected = TRUE]
        ELSE [h EXCEPT !.guis = g1]

(* new XController( parent, object, property, ... ): the Controller base   *)
(* class records the initial value, takes the property as its name and     *)
(* appends itself to the parent's children and controllers.                *)
Controller(h, parent, class, property, value, hooks) ==
    LET this == Len(h.ctrls) + 1
        obj == [parent |-> parent,
                class |-> class,
                _name |-> property,
                value |-> value,
                initialValue |-> value,
                onOpen |-> "onOpen" \in hooks,
                onClose |-> "onClose" \in hooks]
    IN  [h EXCEPT !.ctrls = Append(@, obj),
                  !.guis[parent].children = Append(@, Child("ctrl", this)),
                  !.guis[parent].controllers = Append(@, this)]

(* Object( $1 ) === $1: true of objects, arrays and functions; Object( x ) *)
(* wraps a primitive, null and undefined included, in a new object.        *)
IsNonPrimitive(x) == x.t \in {"object", "array", "function"}

(* typeof x: one of 'undefined', 'object', 'boolean', 'number', 'bigint',  *)
(* 'string', 'symbol' and 'function'; null and arrays give 'object'.  No   *)
(* value has the type 'upload'.                                            *)
TypeOf(x) == IF x.t \in {"null", "array"} THEN "object" ELSE x.t

(* A selection that looks at the type of the value before the hint.        *)
addClass_TypeFirst(initialValue, hint) ==
    CASE TypeOf(initialValue) = "number" -> "NumberController"
      [] TypeOf(initialValue) = "boolean" -> "BooleanController"
      [] TypeOf(initialValue) = "string" -> "StringController"
      [] TypeOf(initialValue) = "function" -> "FunctionController"
      [] TypeOf(initialValue) = "upload" -> "FileController"
      [] OTHER -> IF IsNonPrimitive(hint) THEN "OptionController" ELSE ""

(* The class add() instantiates, "" when it falls through the switch to    *)
(* console.error and returns undefined.                                    *)
addClass(initialValue, hint) ==
    IF IsNonPrimitive(hint) THEN "OptionController"
    ELSE CASE TypeOf(initialValue) = "number" -> "NumberController"
           [] TypeOf(initialValue) = "boolean" -> "BooleanController"
           [] TypeOf(initialValue) = "string" -> "StringController"
           [] TypeOf(initialValue) = "function" -> "FunctionController"
           [] TypeOf(initialValue) = "upload" -> "FileController"
           [] OTHER -> ""

(* An add() that fails without a word.                                     *)
add_Silent(h, gui, property, initialValue, hint, hooks) ==
    IF addClass(initialValue, hint) = ""
    THEN h
    ELSE Controller(h, gui, addClass(initialValue, hint), property, initialValue, hooks)

(* gui.add( object, property, $1 ) where object[ property ] is             *)
(* initialValue; hooks are the lifecycle callbacks the caller then         *)
(* defines on the controller.                                              *)
add(h, gui, property, initialValue, hint, hooks) ==
    IF addClass(initialValue, hint) = ""
    THEN Log(h, "console.error", "gui", gui)
    ELSE Controller(h, gui, addClass(initialValue, hint), property, initialValue, hooks)

addColor(h, gui, property, value, hooks) ==
    Controller(h, gui, "ColorController", property, value, hooks)

(* controller.onClose && controller.onClose(), for each controller of the  *)
(* list from index i on.                                                   *)
RECURSIVE CallHooks(_, _, _, _)
CallHooks(h, list, i, fn) ==
    IF i > Len(list) THEN h
    ELSE CallHooks(IF h.ctrls[list[i]][fn] THEN Log(h, fn, "ctrl", list[i]) ELSE h,
                   list, i + 1, fn)

RECURSIVE _callOnOpenClose(_, _)
RECURSIVE CallOnOpenCloseFolders_OpenOnly(_, _, _)
(* A fan-out that stops at closed folders.                                 *)
CallOnOpenCloseFolders_OpenOnly(h, list, i) ==
    IF i > Len(list) THEN h
    ELSE CallOnOpenCloseFolders_OpenOnly(
             IF h.guis[list[i]]._closed THEN h ELSE _callOnOpenClose(h, list[i]),
             list, i + 1)

RECURSIVE CallOnOpenCloseFolders(_, _, _)
(* gui.folders.forEach( folder => folder._callOnOpenClose( folder ) )      *)
CallOnOpenCloseFolders(h, list, i) ==
    IF i > Len(list) THEN h
    ELSE CallOnOpenCloseFolders(_callOnOpenClose(h, list[i]), list, i + 1)

_callOnOpenClose(h, gui) ==
    IF h.guis[gui]._closed
    THEN CallOnOpenCloseFolders(
             CallHooks(h, h.guis[gui].controllers, 1, "onClose"),
             h.guis[gui].folders, 1)
    ELSE CallOnOpenCloseFolders(
             CallHooks(h, h.guis[gui].controllers, 1, "onOpen"),
             h.guis[gui].folders, 1)

(* A _setClosed without the early return.                                  *)
_setClosed_NoGuard(h, gui, closed) ==
    _callOnOpenClose([h EXCEPT !.guis[gui]._closed = closed], gui)

_setClosed(h, gui, closed) ==
    IF h.guis[gui]._closed = closed THEN h
    ELSE _callOnOpenClose([h EXCEPT !.guis[gui]._closed = closed], gui)

(* open( open ): the aria-expanded attribute and the 'closed' class follow *)
(* this._closed.                                                           *)
open(h, gui, o) ==
    LET h1 == _setClosed(h, gui, ~o)
    IN  [h1 EXCEPT !.guis[gui].aria_expanded = ~h1.guis[gui]._closed,
                   !.guis[gui].class_closed = h1.guis[gui]._closed]

close(h, gui) == open(h, gui, FALSE)

(* A callback passed to requestAnimationFrame by openAnimated( open ) of   *)
(* panel gui: the outer arrow function, or the inner one it requests.      *)
Frame(gui, o, inner) == [gui |-> gui, open |-> o, inner |-> inner]

(* An openAnimated that leaves the flag and the callbacks to the frame.    *)
openAnimated_Deferred(h, gui, o) ==
    [h EXCEPT !.guis[gui].aria_expanded = ~h.guis[gui]._closed,
              !.frames = Append(@, Frame(gui, o, FALSE))]

(* openAnimated( open ): _setClosed and aria-expanded at once, the rest    *)
(* in an animation frame.                                                  *)
openAnimated(h, gui, o) ==
    LET h1 == _setClosed(h, gui, ~o)
    IN  [h1 EXCEPT !.guis[gui].aria_expanded = ~h1.guis[gui]._closed,
                   !.frames = Append(@, Frame(gui, o, FALSE))]

(* One animation frame callback runs.  The outer one toggles the 'closed'  *)
(* class by the argument open it has captured and requests the inner one;  *)
(* the inner one sets the height of $children only (heights and the        *)
(* 'transition' class are not part of the model).                          *)
runFrame(h, f) ==
    IF f.inner THEN h
    ELSE [h EXCEPT !.guis[f.gui].class_closed = ~f.open,
                   !.frames = Append(@, Frame(f.gui, f.open, TRUE))]

(* The browser renders a frame: the callbacks pending when the frame       *)
(* starts run in the order they were requested; those requested meanwhile  *)
(* wait for the next frame.                                                *)
RECURSIVE runFrames(_, _, _)
runFrames(h, list, i) ==
    IF i > Len(list) THEN h
    ELSE runFrames(runFrame(h, list[i]), list, i + 1)

animationFrame(h) == runFrames([h EXCEPT !.frames = <<>>], h.frames, 1)

(* An addFolder that asks the panel itself, not the root.                  *)
addFolder_OwnFlag(h, gui, title) ==
    LET h1 == GUI(h, gui, title, FALSE, TRUE)
        folder == Len(h1.guis)
    IN  IF h1.guis[gui]._closeFolders THEN close(h1, folder) ELSE h1

(* addFolder( title ): the constructor is passed the parent and the title, *)
(* and takes closeFolders = false and injectStyles = true by default.      *)
addFolder(h, gui, title) ==
    LET h1 == GUI(h, gui, title, FALSE, TRUE)
        folder == Len(h1.guis)
    IN  IF h1.guis[h1.guis[gui].root]._closeFolders THEN close(h1, folder) ELSE h1

(* controllersRecursive(): this.controllers.slice(), then the result of    *)
(* each folder's controllersRecursive() concatenated in folder order.      *)
RECURSIVE controllersRecursive(_, _)
RECURSIVE ConcatFolders(_, _, _, _)
RECURSIVE ConcatFolders_Shallow(_, _, _, _)
(* A flattening that takes the folders' own controllers only.              *)
ConcatFolders_Shallow(h, list, i, result) ==
    IF i > Len(list) THEN result
    ELSE ConcatFolders_Shallow(h, list, i + 1, result \o h.guis[list[i]].controllers)

ConcatFolders(h, list, i, result) ==
    IF i > Len(list) THEN result
    ELSE ConcatFolders(h, list, i + 1, result \o controllersRecursive(h, list[i]))

controllersRecursive(h, gui) ==
    ConcatFolders(h, h.guis[gui].folders, 1, h.guis[gui].controllers)

(* controller.destroy() of the Controller base class: the controller       *)
(* leaves its parent's children and controllers.                           *)
Controller_destroy(h, c) ==
    LET parent == h.ctrls[c].parent
    IN  [Log(h, "destroy", "ctrl", c) EXCEPT
            !.guis[parent].children = SpliceIfFound(@, Child("ctrl", c)),
            !.guis[parent].controllers = SpliceIfFound(@, c)]

(* A detachment that forgets the parent's folders list.                    *)
DetachFromParent_ChildrenOnly(h, gui) ==
    LET parent == h.guis[gui].parent
    IN  IF parent # 0
        THEN [h EXCEPT !.guis[parent].children = SpliceIndexOf(@, Child("gui", gui))]
        ELSE h

(* destroy(), its first statement: the index in parent.folders is tested   *)
(* against -1, the index in parent.children is not.                        *)
DetachFromParent(h, gui) ==
    LET parent == h.guis[gui].parent
    IN  IF parent # 0
        THEN [h EXCEPT !.guis[parent].folders = SpliceIfFound(@, gui),
                       !.guis[parent].children = SpliceIndexOf(@, Child("gui", gui))]
        ELSE h

RECURSIVE destroy(_, _)
RECURSIVE DestroyControllers(_, _, _)
RECURSIVE DestroyFolders(_, _, _)
(* this.controllers.forEach( controller => controller.destroy() ).         *)
(* forEach visits index k only while k is an index of the array as it is   *)
(* then: the callback shortens the very array that is being walked.        *)
DestroyControllers(h, gui, k) ==
    IF k > Len(h.guis[gui].controllers) THEN h
    ELSE DestroyControllers(Controller_destroy(h, h.guis[gui].controllers[k]),
                            gui, k + 1)

(* this.folders.forEach( folder => folder.destroy() ), on the live array.  *)
DestroyFolders(h, gui, k) ==
    IF k > Len(h.guis[gui].folders) THEN h
    ELSE DestroyFolders(destroy(h, h.guis[gui].folders[k]), gui, k + 1)

destroy(h, gui) ==
    DestroyFolders(
        DestroyControllers(
            DetachFromParent(Log(h, "destroy", "gui", gui), gui),
            gui, 1),
        gui, 1)

(* controller.setValue( v ) of the Controller base class.                  *)
Controller_setValue(h, c, v) == [h EXCEPT !.ctrls[c].value = v]

(* controller.reset() of the Controller base class: back to the value the  *)
(* property had when the controller was created.                           *)
Controller_reset(h, c) ==
    Controller_setValue(Log(h, "reset", "ctrl", c), c, h.ctrls[c].initialValue)

(* controllers.forEach( controller => { controller.reset(); } )            *)
RECURSIVE ResetControllers(_, _, _)
ResetControllers(h, list, i) ==
    IF i > Len(list) THEN h
    ELSE ResetControllers(Controller_reset(h, list[i]), list, i + 1)

RECURSIVE reset(_, _, _)
RECURSIVE ResetFolders(_, _, _)
(* this.folders.forEach( folder => folder.reset() ): recursive defaults to *)
(* true in each folder.                                                    *)
ResetFolders(h, list, i) ==
    IF i > Len(list) THEN h
    ELSE ResetFolders(reset(h, list[i], TRUE), list, i + 1)

reset(h, gui, recursive) ==
    LET controllers == IF recursive THEN controllersRecursive(h, gui)
                       ELSE h.guis[gui].controllers
        h1 == ResetControllers(h, controllers, 1)
    IN  IF recursive THEN ResetFolders(h1, h1.guis[gui].folders, 1) ELSE h1

(* An exception thrown to the caller.                                      *)
Throw(message) == Val("throw", message)

IsThrow(x) == x.t = "throw"

(* obj[ key ] = value                                                      *)
Put(obj, key, value) ==
    Obj([k \in DOMAIN obj.v \cup {key} |-> IF k = key THEN value ELSE obj.v[k]])

(* controller.save() of the Controller base class: the current value.      *)
Controller_save(h, c) == h.ctrls[c].value

(* controller.load( value ) of the Controller base class.                  *)
Controller_load(h, c, value) ==
    Controller_setValue(Log(h, "load", "ctrl", c), c, value)

(* this.controllers.forEach of save(): obj is obj.controllers so far.      *)
RECURSIVE SaveControllers(_, _, _, _)
RECURSIVE SaveControllers_WithFunctions(_, _, _, _)
(* A controllers loop that saves Function controllers as well.             *)
SaveControllers_WithFunctions(h, list, i, obj) ==
    IF i > Len(list) THEN obj
    ELSE IF In(h.ctrls[list[i]]._name, obj)
         THEN Throw("Cannot save GUI with duplicate property")
    ELSE SaveControllers_WithFunctions(h, list, i + 1,
                         Put(obj, h.ctrls[list[i]]._name, Controller_save(h, list[i])))

SaveControllers(h, list, i, obj) ==
    IF i > Len(list) THEN obj
    ELSE IF h.ctrls[list[i]].class = "FunctionController"
         THEN SaveControllers(h, list, i + 1, obj)
    ELSE IF In(h.ctrls[list[i]]._name, obj)
         THEN Throw("Cannot save GUI with duplicate property")
    ELSE SaveControllers(h, list, i + 1,
                         Put(obj, h.ctrls[list[i]]._name, Controller_save(h, list[i])))

RECURSIVE save(_, _, _)
RECURSIVE SaveFolders_NoDuplicateCheck(_, _, _, _)
(* A folders loop without the duplicate test: the later folder wins.       *)
SaveFolders_NoDuplicateCheck(h, list, i, obj) ==
    IF i > Len(list) THEN obj
    ELSE IF IsThrow(save(h, list[i], TRUE)) THEN save(h, list[i], TRUE)
    ELSE SaveFolders_NoDuplicateCheck(h, list, i + 1,
                     Put(obj, h.guis[list[i]]._title, save(h, list[i], TRUE)))

RECURSIVE SaveFolders(_, _, _, _)
(* this.folders.forEach of save(): obj is obj.folders so far; f.save()     *)
(* takes recursive = true by default and its exception propagates.         *)
SaveFolders(h, list, i, obj) ==
    IF i > Len(list) THEN obj
    ELSE IF In(h.guis[list[i]]._title, obj)
         THEN Throw("Cannot save GUI with duplicate folder")
    ELSE IF IsThrow(save(h, list[i], TRUE)) THEN save(h, list[i], TRUE)
    ELSE SaveFolders(h, list, i + 1,
                     Put(obj, h.guis[list[i]]._title, save(h, list[i], TRUE)))

(* save( recursive ): the snapshot, or the exception thrown.               *)
save(h, gui, recursive) ==
    LET controllers == SaveControllers(h, h.guis[gui].controllers, 1, Obj(EmptyMap))
        folders == IF recursive
                   THEN SaveFolders(h, h.guis[gui].folders, 1, Obj(EmptyMap))
                   ELSE Obj(EmptyMap)
    IN  IF IsThrow(controllers) THEN controllers
        ELSE IF IsThrow(folders) THEN folders
        ELSE Put(Put(Obj(EmptyMap), "controllers", controllers), "folders", folders)

(* this.controllers.forEach of load(): obj is obj.controllers.             *)
RECURSIVE LoadControllers(_, _, _, _)
LoadControllers(h, list, i, obj) ==
    IF i > Len(list) THEN h
    ELSE IF h.ctrls[list[i]].class = "FunctionController"
         THEN LoadControllers(h, list, i + 1, obj)
    ELSE IF In(h.ctrls[list[i]]._name, obj)
         THEN LoadControllers(
                  Controller_load(h, list[i], Get(obj, h.ctrls[list[i]]._name)),
                  list, i + 1, obj)
    ELSE LoadControllers(h, list, i + 1, obj)

RECURSIVE load(_, _, _, _)
RECURSIVE LoadFolders_Skip(_, _, _, _)
(* A load that never descends into the folders.                            *)
LoadFolders_Skip(h, list, i, obj) == h

RECURSIVE LoadFolders(_, _, _, _)
(* this.folders.forEach of load(): obj is obj.folders; f.load( .. ) takes  *)
(* recursive = true by default.                                            *)
LoadFolders(h, list, i, obj) ==
    IF i > Len(list) THEN h
    ELSE IF In(h.guis[list[i]]._title, obj)
         THEN LoadFolders(load(h, list[i], Get(obj, h.guis[list[i]]._title), TRUE),
                          list, i + 1, obj)
    ELSE LoadFolders(h, list, i + 1, obj)

load(h, gui, obj, recursive) ==
    LET h1 == IF Truthy(Get(obj, "controllers"))
              THEN LoadControllers(h, h.guis[gui].controllers, 1, Get(obj, "controllers"))
              ELSE h
    IN  IF recursive /\ Truthy(Get(obj, "folders"))
        THEN LoadFolders(h1, h1.guis[gui].folders, 1, Get(obj, "folders"))
        ELSE h1

---------------------------------------------------------------------------
(* The inputs of the API calls.                                            *)

(* $1: absent, or an object of options.                                    *)
Hints == {Undefined, Obj(EmptyMap)}

(* The values a caller may later assign through a controller.              *)
SetValues == {Val("number", 0), Val("number", 1)}

---------------------------------------------------------------------------
(* The state machine.  lastOp names the API call that produced the state:  *)
(* the method, the panel it was called on, its argument and what it        *)
(* returned or threw.                                                      *)

(* What the caller keeps of its last successful save(): the snapshot, the  *)
(* panel and the argument of the call, and (for the properties) the        *)
(* controllers as they were then.  The caller drops the snapshot when it   *)
(* changes the structure of the tree.                                      *)
Saved(obj, gui, recursive, c) ==
    [snapshot |-> obj, gui |-> gui, recursive |-> recursive, ctrls |-> c]

NoSave == Saved(Undefined, 0, FALSE, <<>>)

Op(op, gui, arg, ret) == [op |-> op, gui |-> gui, arg |-> arg, ret |-> ret]

Commit(h, op) ==
    /\ guis' = h.guis
    /\ ctrls' = h.ctrls
    /\ calls' = h.calls
    /\ frames' = h.frames
    /\ stylesInjected' = h.stylesInjected
    /\ styleSheets' = h.styleSheets
    /\ lastOp' = op

(* The options of new GUI( options ) that matter here, and what the flag   *)
(* stylesInjected was when the constructor was called.                     *)
Options(closeFolders, injectStyles, injected) ==
    [closeFolders |-> closeFolders, injectStyles |-> injectStyles, injected |-> injected]

(* The page after its first new GUI( { closeFolders, injectStyles } ).     *)
InitOptions(closeFolders, injectStyles) ==
    LET h == GUI(Heap(<<>>, <<>>, <<>>), 0, "Controls", closeFolders, injectStyles)
    IN  /\ guis = h.guis
        /\ ctrls = <<>>
        /\ saved = NoSave
        /\ calls = <<>>
        /\ frames = <<>>
        /\ stylesInjected = h.stylesInjected
        /\ styleSheets = h.styleSheets
        /\ lastOp = Op("new GUI", 1, Options(closeFolders, injectStyles, FALSE),
                       Val("gui", 1))

(* new GUI( { closeFolders } ): injectStyles = true by default.            *)
InitWith(closeFolders) == InitOptions(closeFolders, TRUE)

Init == \E closeFolders \in BOOLEAN : InitWith(closeFolders)

(* new GUI(): closeFolders = false by default.                             *)
InitDefault == InitWith(FALSE)

Gui == 1..Len(guis)

(* One more new GUI( { closeFolders, injectStyles } ): another root.       *)
NewGUI(closeFolders, injectStyles) ==
    /\ Len(guis) < MaxGuis
    /\ LET h == GUI(Here, 0, "Controls", closeFolders, injectStyles)
       IN  Commit(h, Op("new GUI", Len(h.guis),
                        Options(closeFolders, injectStyles, stylesInjected),
                        Val("gui", Len(h.guis))))
    /\ saved' = NoSave

Ctrl == 1..Len(ctrls)

(* What add() returns: the new controller, or undefined.                   *)
Created(h) ==
    IF Len(h.ctrls) > Len(ctrls) THEN Val("ctrl", Len(h.ctrls)) ELSE Undefined

(* arg holds object[ property ] and $1 as they were passed.                *)
Add(gui, property, initialValue, hint, hooks) ==
    /\ Len(ctrls) < MaxCtrls
    /\ LET h == add(Here, gui, property, initialValue, hint, hooks)
       IN  Commit(h, Op("add", gui, [value |-> initialValue, hint |-> hint], Created(h)))
    /\ saved' = NoSave

AddColor(gui, property, hooks) ==
    /\ Len(ctrls) < MaxCtrls
    /\ LET h == addColor(Here, gui, property, Val("string", 0), hooks)
       IN  Commit(h, Op("addColor", gui, Undefined, Created(h)))
    /\ saved' = NoSave

AddFolder(gui, title) ==
    /\ Len(guis) < MaxGuis
    /\ LET h == addFolder(Here, gui, title)
       IN  Commit(h, Op("addFolder", gui, Undefined, Val("gui", Len(h.guis))))
    /\ saved' = NoSave

(* arg is destroy()'s local index: the place of the panel in its parent's  *)
(* folders before the call, 0 when it has no parent or is not found.       *)
Destroy(gui) ==
    /\ Commit(destroy(Here, gui),
              Op("destroy", gui,
                 Val("number", IF guis[gui].parent # 0
                               THEN IndexOf(guis[guis[gui].parent].folders, gui)
                               ELSE 0),
                 Undefined))
    /\ saved' = NoSave

Bool(b) == Val("boolean", IF b THEN 1 ELSE 0)

(* The caller changes a value through a controller.                        *)
SetValue(c, v) ==
    /\ Commit(Controller_setValue(Here, c, v),
              Op("setValue", ctrls[c].parent, Undefined, Undefined))
    /\ UNCHANGED saved

Reset(gui, recursive) ==
    /\ Commit(reset(Here, gui, recursive),
              Op("reset", gui, Bool(recursive), Val("gui", gui)))
    /\ UNCHANGED saved

Open(gui, o) ==
    /\ Commit(open(Here, gui, o), Op("open", gui, Bool(o), Val("gui", gui)))
    /\ UNCHANGED saved

Close(gui) ==
    /\ Commit(close(Here, gui), Op("close", gui, Undefined, Val("gui", gui)))
    /\ UNCHANGED saved

(* openAnimated( open ), called by the host or by a click on the title    *)
(* (which passes this._closed).                                            *)
OpenAnimated(gui, o) ==
    /\ Commit(openAnimated(Here, gui, o),
              Op("openAnimated", gui, Bool(o), Val("gui", gui)))
    /\ UNCHANGED saved

(* The browser runs the pending animation frame callbacks.                 *)
AnimationFrame ==
    /\ frames # <<>>
    /\ Commit(animationFrame(Here), Op("animationFrame", 0, Undefined, Undefined))
    /\ UNCHANGED saved

(* controllersRecursive(), called by the host: ret is the array returned. *)
ControllersRecursive(gui) ==
    /\ Commit(Here, Op("controllersRecursive", gui, Undefined,
                       Val("array", controllersRecursive(Here, gui))))
    /\ UNCHANGED saved

Save(gui, recursive) ==
    LET result == save(Here, gui, recursive)
    IN  /\ Commit(Here, Op("save", gui, Bool(recursive), result))
        /\ saved' = IF IsThrow(result) THEN saved
                    ELSE Saved(result, gui, recursive, ctrls)

(* The controllers whose value is not the one they had at the last save.   *)
ChangedSinceSave ==
    {c \in Ctrl : c \in DOMAIN saved.ctrls /\ ctrls[c].value # saved.ctrls[c].value}

Load(gui, obj, recursive) ==
    /\ Commit(load(Here, gui, obj, recursive),
              Op("load", gui,
                 [obj |-> obj, recursive |-> recursive, changed |-> ChangedSinceSave],
                 Val("gui", gui)))
    /\ UNCHANGED saved

---------------------------------------------------------------------------
(* Building a tree: add, addColor and addFolder on any panel, with a       *)
(* number, an unsupported value (undefined) or an options object.          *)

BuildValues == {Val("number", 0), Undefined}

BuildAdd ==
    \E gui \in Gui, initialValue \in BuildValues, hint \in Hints :
        Add(gui, "x", initialValue, hint, {})

BuildAddColor == \E gui \in Gui : AddColor(gui, "x", {})

BuildAddFolder == \E gui \in Gui : AddFolder(gui, "a")

NextBuild == BuildAdd \/ BuildAddColor \/ BuildAddFolder

SpecBuild == Init /\ [][NextBuild]_vars

---------------------------------------------------------------------------
(* add() with a value of every type and with every kind of $1, on the      *)
(* root and on a folder.                                                   *)

(* One value for each result of typeof, and null and a plain object for    *)
(* 'object'.                                                               *)
AddValues ==
    { Val("number", 0), Val("boolean", 0), Val("string", 0), Val("function", 0),
      Undefined, Null, Obj(EmptyMap), Val("bigint", 0), Val("symbol", 0) }

(* $1: absent, a number (min), a string, an object of options, an array    *)
(* of options, a function.                                                 *)
AddHints ==
    { Undefined, Val("number", 0), Val("string", 0),
      Obj(EmptyMap), Val("array", 0), Val("function", 0) }

AddAddFolder == Len(guis) = 1 /\ AddFolder(1, "a")

AddAdd ==
    \E gui \in Gui, initialValue \in AddValues, hint \in AddHints :
        Add(gui, "x", initialValue, hint, {})

NextAdd == AddAddFolder \/ AddAdd

SpecAdd == Init /\ [][NextAdd]_vars

---------------------------------------------------------------------------
(* Building a tree of number controllers and flattening its panels.        *)

FlatAddFolder == \E gui \in Gui : AddFolder(gui, "a")

FlatAdd == \E gui \in Gui : Add(gui, "x", Val("number", 0), Undefined, {})

FlatControllersRecursive == \E gui \in Gui : ControllersRecursive(gui)

NextFlat == FlatAddFolder \/ FlatAdd \/ FlatControllersRecursive

SpecFlat == Init /\ [][NextFlat]_vars

---------------------------------------------------------------------------
(* A page on which several roots are constructed, with and without         *)
(* injectStyles and closeFolders, and folders are added to them.           *)

RootsNewGUI ==
    \E closeFolders \in BOOLEAN, injectStyles \in BOOLEAN :
        NewGUI(closeFolders, injectStyles)

RootsAddFolder == \E gui \in Gui, title \in {"a", "b"} : AddFolder(gui, title)

NextRoots == RootsNewGUI \/ RootsAddFolder

InitRoots ==
    \E closeFolders \in BOOLEAN, injectStyles \in BOOLEAN :
        InitOptions(closeFolders, injectStyles)

SpecRoots == InitRoots /\ [][NextRoots]_vars

---------------------------------------------------------------------------
(* Building a tree and destroying panels of it: destroy() on any panel     *)
(* the caller holds, the root and panels destroyed before included.        *)

TreeAdd == \E gui \in Gui : Add(gui, "x", Val("number", 0), Undefined, {})

TreeAddFolder == \E gui \in Gui : AddFolder(gui, "a")

TreeDestroy == \E gui \in Gui : Destroy(gui)

NextDestroy == TreeAddFolder \/ TreeAdd \/ TreeDestroy

SpecDestroy == Init /\ [][NextDestroy]_vars

---------------------------------------------------------------------------
(* Building a tree of number controllers, changing their values and        *)
(* resetting panels.                                                       *)

ResetAddFolder == \E gui \in Gui : AddFolder(gui, "a")

ResetAdd == \E gui \in Gui : Add(gui, "x", Val("number", 0), Undefined, {})

ResetSetValue == \E c \in Ctrl, v \in SetValues : SetValue(c, v)

ResetReset == \E gui \in Gui, recursive \in BOOLEAN : Reset(gui, recursive)

NextReset == ResetAddFolder \/ ResetAdd \/ ResetSetValue \/ ResetReset

SpecReset == Init /\ [][NextReset]_vars

---------------------------------------------------------------------------
(* Building a tree of controllers with and without lifecycle callbacks,    *)
(* and opening and closing its panels.                                     *)

OpenAddFolder == \E gui \in Gui : AddFolder(gui, "a")

(* Controllers that define onOpen only, or both callbacks.                 *)
OpenHookSets == {{"onOpen"}, {"onOpen", "onClose"}}

OpenAdd ==
    \E gui \in Gui, hooks \in OpenHookSets :
        Add(gui, "x", Val("number", 0), Undefined, hooks)

(* open() with its default argument; close() is open( false ).             *)
OpenOpen == \E gui \in Gui : Open(gui, TRUE)

OpenClose == \E gui \in Gui : Close(gui)

NextOpen == OpenAddFolder \/ OpenAdd \/ OpenOpen \/ OpenClose

SpecOpen == InitDefault /\ [][NextOpen]_vars

---------------------------------------------------------------------------
(* Opening and closing the panels of a tree at once and animated, with     *)
(* the browser running the requested animation frames in between.          *)

(* The folders and controllers created so far.                             *)
Objects == Len(guis) - 1 + Len(ctrls)

AnimAddFolder == \E gui \in Gui : Objects < MaxSaveObjects /\ AddFolder(gui, "a")

AnimAdd ==
    \E gui \in Gui :
        /\ Objects < MaxSaveObjects
        /\ Add(gui, "x", Val("number", 0), Undefined, {"onOpen", "onClose"})

AnimOpen == \E gui \in Gui, o \in BOOLEAN : Open(gui, o)

(* An animation starts when the frames of the one before have run.        *)
AnimOpenAnimated ==
    \E gui \in Gui, o \in BOOLEAN : frames = <<>> /\ OpenAnimated(gui, o)

NextAnim == AnimAddFolder \/ AnimAdd \/ AnimOpen \/ AnimOpenAnimated \/ AnimationFrame

SpecAnim == InitDefault /\ [][NextAnim]_vars

---------------------------------------------------------------------------
(* Building a tree of number and function controllers and saving its       *)
(* panels, with and without their folders.                                 *)

Snap(controllers, folders) ==
    Put(Put(Obj(EmptyMap), "controllers", Obj(controllers)), "folders", Obj(folders))

SaveValues == {Val("number", 0), Val("function", 0)}

SaveNames == {"x", "y"}

SaveTitles == {"a", "b"}

SaveAddFolder ==
    \E gui \in Gui, title \in SaveTitles :
        Objects < MaxSaveObjects /\ AddFolder(gui, title)

SaveAdd ==
    \E gui \in Gui, property \in SaveNames, initialValue \in SaveValues :
        Objects < MaxSaveObjects /\ Add(gui, property, initialValue, Undefined, {})

SaveSave == \E gui \in Gui, recursive \in BOOLEAN : Save(gui, recursive)

NextSave == SaveAddFolder \/ SaveAdd \/ SaveSave

SpecSave == InitDefault /\ [][NextSave]_vars

---------------------------------------------------------------------------
(* Saving trees whose names and titles include names of members that every *)
(* object inherits.                                                        *)

ProtoNames == {"x", "constructor"}

ProtoTitles == {"a", "toString"}

ProtoAddFolder ==
    \E gui \in Gui, title \in ProtoTitles :
        Objects < MaxSaveObjects /\ AddFolder(gui, title)

ProtoAdd ==
    \E gui \in Gui, property \in ProtoNames, initialValue \in SaveValues :
        Objects < MaxSaveObjects /\ Add(gui, property, initialValue, Undefined, {})

ProtoSave == \E gui \in Gui, recursive \in BOOLEAN : Save(gui, recursive)

NextProto == ProtoAddFolder \/ ProtoAdd \/ ProtoSave

SpecProto == InitDefault /\ [][NextProto]_vars

---------------------------------------------------------------------------
(* The round trip: building a tree of number and function controllers,     *)
(* saving a panel, changing values, and loading the snapshot saved last    *)
(* into the panel it was saved from.                                       *)

TripSetValue ==
    \E c \in Ctrl, v \in SetValues :
        ctrls[c].class # "FunctionController" /\ SetValue(c, v)

TripSave == \E gui \in Gui : Save(gui, TRUE)

TripLoad == saved.snapshot # Undefined /\ Load(saved.gui, saved.snapshot, TRUE)

NextTrip == SaveAddFolder \/ SaveAdd \/ TripSetValue \/ TripSave \/ TripLoad

SpecTrip == InitDefault /\ [][NextTrip]_vars

---------------------------------------------------------------------------
(* Loading snapshots the caller wrote into a tree of number and function   *)
(* controllers.                                                            *)

LoadInputs ==
    { Snap(EmptyMap, EmptyMap),
      Snap("x" :> Val("number", 1), EmptyMap),
      Snap("y" :> Val("number", 1), "a" :> Snap("x" :> Val("number", 1), EmptyMap)),
      Put(Obj(EmptyMap), "folders", Obj("b" :> Snap("x" :> Val("number", 1), EmptyMap))) }

LoadNames == {"x", "constructor"}

LoadTitles == {"a", "b"}

LoadAddFolder ==
    \E gui \in Gui, title \in LoadTitles :
        Objects < MaxSaveObjects /\ AddFolder(gui, title)

LoadAdd ==
    \E gui \in Gui, property \in LoadNames, initialValue \in SaveValues :
        Objects < MaxSaveObjects /\ Add(gui, property, initialValue, Undefined, {})

LoadLoad ==
    \E gui \in Gui, obj \in LoadInputs, recursive \in BOOLEAN : Load(gui, obj, recursive)

NextLoad == LoadAddFolder \/ LoadAdd \/ LoadLoad

SpecLoad == InitDefault /\ [][NextLoad]_vars

---------------------------------------------------------------------------
(* Views of the lists used by the properties.                              *)

(* The ids of the entries of one kind in a children list, in order.        *)
OfKind(children, kind) ==
    LET sel == SelectSeq(children, LAMBDA e : e.kind = kind)
    IN  [i \in 1..Len(sel) |-> sel[i].id]

NoDuplicates(s) == \A i, j \in 1..Len(s) : s[i] = s[j] => i = j

(* s is t or t with one element appended.                                  *)
SameOrAppended(s, t) ==
    \/ s = t
    \/ Len(s) = Len(t) + 1 /\ SubSeq(s, 1, Len(t)) = t

---------------------------------------------------------------------------
(* C1: after any sequence of add / addColor / addFolder calls, in every    *)
(* panel the children list holds exactly the controllers and folders       *)
(* created in that panel, each once; controllers and folders are the       *)
(* order-preserving sub-sequences of children of the controller and of     *)
(* the folder entries; and every call leaves each children list as it was  *)
(* or with the new entry appended at its end (insertion order).            *)
ListsPartitionChildren ==
    \A g \in Gui :
        /\ guis[g].controllers = OfKind(guis[g].children, "ctrl")
        /\ guis[g].folders = OfKind(guis[g].children, "gui")
        /\ NoDuplicates(guis[g].children)
        /\ Range(guis[g].controllers) = {c \in Ctrl : ctrls[c].parent = g}
        /\ Range(guis[g].folders) = {f \in Gui : guis[f].parent = g}

ChildrenAppendOnly ==
    \A g \in Gui : SameOrAppended(guis'[g].children, guis[g].children)

C1_ChildrenInsertionOrder ==
    [][ListsPartitionChildren /\ ListsPartitionChildren' /\ ChildrenAppendOnly]_vars

(* A panel whose children list mixes controllers and folders, a folder     *)
(* between two controllers.                                                *)
C1_Witness ==
    \E g \in Gui :
        /\ Len(guis[g].children) = 3
        /\ guis[g].children[1].kind = "ctrl"
        /\ guis[g].children[2].kind = "gui"
        /\ guis[g].children[3].kind = "ctrl"
        /\ lastOp.op = "add"

---------------------------------------------------------------------------
(* Views of the tree used by the properties about destroy.                 *)

There == Heap(guis', ctrls', calls')

(* The folders below a panel, through the folders lists.                   *)
RECURSIVE FoldersBelow(_, _)
FoldersBelow(h, gui) ==
    Range(h.guis[gui].folders)
        \cup UNION {FoldersBelow(h, f) : f \in Range(h.guis[gui].folders)}

(* The panels from gui up to its root, through the parent links.           *)
RECURSIVE Ancestors(_)
Ancestors(gui) ==
    IF guis[gui].parent = 0 THEN {gui} ELSE {gui} \cup Ancestors(guis[gui].parent)

(* s holds elements of t only, each once, in the order they have in t.     *)
KeepsOrderOf(s, t) ==
    /\ NoDuplicates(s)
    /\ Range(s) \subseteq Range(t)
    /\ \A i, j \in 1..Len(s) : i < j => IndexOf(t, s[i]) < IndexOf(t, s[j])

Destroyed(kind, id) == Call("destroy", kind, id) \in Range(calls')

(* C5: destroy() on a panel runs destroy on every folder and on every      *)
(* controller that was a descendant of the panel when it was called.       *)
C5_DestroyReachesAllDescendants ==
    [][lastOp'.op = "destroy" =>
          /\ \A f \in FoldersBelow(Here, lastOp'.gui) : Destroyed("gui", f)
          /\ \A c \in Range(controllersRecursive(Here, lastOp'.gui)) :
                 Destroyed("ctrl", c)]_vars

(* C6: destroy() on a folder that is in neither list of its parent leaves  *)
(* both lists of the parent as they were.                                  *)
C6_DetachmentIdempotent ==
    [][(/\ lastOp'.op = "destroy"
        /\ guis[lastOp'.gui].parent # 0
        /\ lastOp'.gui \notin Range(guis[guis[lastOp'.gui].parent].folders)
        /\ Child("gui", lastOp'.gui)
               \notin Range(guis[guis[lastOp'.gui].parent].children))
       => LET parent == guis[lastOp'.gui].parent
          IN  /\ guis'[parent].children = guis[parent].children
              /\ guis'[parent].folders = guis[parent].folders]_vars

---------------------------------------------------------------------------
(* The ids of the calls of one method in the call log, in call order.      *)
CallsOf(log, fn) ==
    LET sel == SelectSeq(log, LAMBDA e : e.fn = fn)
    IN  [i \in 1..Len(sel) |-> sel[i].id]

(* Pre-order over the controllers of a subtree: the panel's own            *)
(* controllers, then those of each child folder, in folder order.          *)
RECURSIVE PreOrder(_)
RECURSIVE PreOrderFolders(_, _)
PreOrderFolders(list, i) ==
    IF i > Len(list) THEN <<>>
    ELSE PreOrder(list[i]) \o PreOrderFolders(list, i + 1)

PreOrder(gui) == guis[gui].controllers \o PreOrderFolders(guis[gui].folders, 1)

(* C8: reset( true ) calls reset() on the controllers of the subtree in    *)
(* pre-order, each exactly once; reset( false ) on the panel's own         *)
(* controllers only.                                                       *)
C8_ResetPreOrderOnce ==
    [][lastOp'.op = "reset" =>
          CallsOf(calls', "reset") =
              IF lastOp'.arg = Bool(TRUE) THEN PreOrder(lastOp'.gui)
              ELSE guis[lastOp'.gui].controllers]_vars

---------------------------------------------------------------------------
(* The callbacks a call log holds for one controller, in call order.       *)
HooksCalledOn(log, c) ==
    LET sel == SelectSeq(log, LAMBDA e : e.kind = "ctrl" /\ e.id = c
                                          /\ e.fn \in {"onOpen", "onClose"})
    IN  [i \in 1..Len(sel) |-> sel[i].fn]

(* The callback that matches a closed flag.                                *)
HookFor(closed) == IF closed THEN "onClose" ELSE "onOpen"

(* The closed flag an open( v ) or close() call asks for.                  *)
TargetClosed(op) == IF op.op = "close" THEN TRUE ELSE op.arg = Bool(FALSE)

IsOpenClose(op) == op.op \in {"open", "close"}

(* What a controller receives when the callback fn is meant for it.        *)
Delivered(c, fn) == IF ctrls[c][fn] THEN <<fn>> ELSE <<>>

(* C9: open( v ) and close() leave the closed flag at the target state     *)
(* and fire callbacks only when the flag changes: a call whose target      *)
(* equals the current state fires none and changes nothing, a call that    *)
(* changes the flag fires the matching callback of each of the panel's     *)
(* controllers that defines it exactly once.  So of open( true ),          *)
(* open( true ) on a closed panel the first fires each once, the second    *)
(* none.                                                                   *)
C9_OpenCloseFiresOnChangeOnly ==
    [][IsOpenClose(lastOp') =>
          LET p == lastOp'.gui
              target == TargetClosed(lastOp')
          IN  /\ guis'[p]._closed = target
              /\ guis[p]._closed = target => calls' = <<>> /\ guis' = guis
              /\ guis[p]._closed # target =>
                     \A c \in Range(guis[p].controllers) :
                         HooksCalledOn(calls', c) = Delivered(c, HookFor(target))]_vars

(* open( true ) on an open panel whose controller defines onOpen: nothing  *)
(* fired.                                                                  *)
C9_Witness ==
    /\ lastOp.op = "open"
    /\ lastOp.arg = Bool(TRUE)
    /\ ~guis[lastOp.gui]._closed
    /\ \E c \in Range(guis[lastOp.gui].controllers) : ctrls[c].onOpen
    /\ calls = <<>>

---------------------------------------------------------------------------
(* Views of the tree used by the properties about save and load.           *)

(* The panels a save( recursive ) or load( obj, recursive ) call on gui    *)
(* walks.                                                                  *)
PanelsOf(gui, recursive) ==
    IF recursive THEN {gui} \cup FoldersBelow(Here, gui) ELSE {gui}

(* Two sibling controllers of panel p share a name; with countFunctions    *)
(* Function controllers count as well.                                     *)
DuplicateName(p, countFunctions) ==
    \E i, j \in 1..Len(guis[p].controllers) :
        LET a == ctrls[guis[p].controllers[i]]
            b == ctrls[guis[p].controllers[j]]
        IN  /\ i # j
            /\ a._name = b._name
            /\ countFunctions \/ ("FunctionController" \notin {a.class, b.class})

(* Two sibling folders of panel p share a title.                           *)
DuplicateTitle(p) ==
    \E i, j \in 1..Len(guis[p].folders) :
        i # j /\ guis[guis[p].folders[i]]._title = guis[guis[p].folders[j]]._title

DuplicateInSavedTree(gui, recursive, countFunctions) ==
    \E p \in PanelsOf(gui, recursive) :
        DuplicateName(p, countFunctions) \/ (recursive /\ DuplicateTitle(p))

(* C3 as stated: save() throws whenever two sibling controllers of the     *)
(* saved tree, of any class, share a name or two sibling folders share a   *)
(* title.                                                                  *)
C3_SaveThrowsOnAnyDuplicate ==
    (lastOp.op = "save" /\ DuplicateInSavedTree(lastOp.gui, lastOp.arg = Bool(TRUE), TRUE))
        => IsThrow(lastOp.ret)

(* C3 as amended: save() throws, and returns no snapshot, whenever two     *)
(* sibling controllers of the saved tree that are not Function             *)
(* controllers share a name or two sibling folders of it share a title.    *)
C3_SaveThrowsOnDuplicate ==
    (lastOp.op = "save" /\ DuplicateInSavedTree(lastOp.gui, lastOp.arg = Bool(TRUE), FALSE))
        => IsThrow(lastOp.ret)

(* save() threw for two number controllers with one name in a folder       *)
(* below the panel it was called on.                                       *)
C3_Witness ==
    /\ lastOp.op = "save"
    /\ IsThrow(lastOp.ret)
    /\ \E p \in FoldersBelow(Here, lastOp.gui) : DuplicateName(p, FALSE)

(* C2: load( s ) of the snapshot s = P.save() into P, after any changes    *)
(* of controller values, leaves every controller of P and of the folders   *)
(* below P that is not a Function controller with the value it had when    *)
(* save() was called, and leaves every Function controller as it was.      *)
C2_SaveLoadRoundTrip ==
    [][(/\ lastOp'.op = "load"
        /\ saved.snapshot # Undefined
        /\ lastOp'.gui = saved.gui
        /\ lastOp'.arg.obj = saved.snapshot)
       => \A c \in Range(PreOrder(saved.gui)) :
              IF ctrls[c].class = "FunctionController"
              THEN ctrls'[c] = ctrls[c]
              ELSE ctrls'[c].value = saved.ctrls[c].value]_vars

(* The saved snapshot was loaded back after the value of a controller of   *)
(* the panel and of a controller in a folder below it had been changed.    *)
C2_Witness ==
    /\ lastOp.op = "load"
    /\ lastOp.arg.obj = saved.snapshot
    /\ \E c \in lastOp.arg.changed : ctrls[c].parent = saved.gui
    /\ \E c \in lastOp.arg.changed :
           /\ ctrls[c].parent \in FoldersBelow(Here, saved.gui)
           /\ ctrls[c].value = saved.ctrls[c].value

(* The controllers a snapshot names: those of the panel whose name is an   *)
(* own key of obj.controllers and, with recursive, those named by          *)
(* obj.folders[ title ] in each folder whose title is an own key of        *)
(* obj.folders.                                                            *)
RECURSIVE Named(_, _, _)
Named(gui, obj, recursive) ==
    LET controllers == Get(obj, "controllers")
        folders == Get(obj, "folders")
    IN  {c \in Range(guis[gui].controllers) :
            controllers.t = "object" /\ ctrls[c]._name \in DOMAIN controllers.v}
        \cup
        (IF recursive /\ folders.t = "object"
         THEN UNION {Named(f, folders.v[guis[f]._title], TRUE) :
                        f \in {f \in Range(guis[gui].folders) :
                                  guis[f]._title \in DOMAIN folders.v}}
         ELSE {})

(* C4: load( snapshot ) returns the panel, changes no panel, and leaves    *)
(* every controller the snapshot does not name as it was.                  *)
C4_LoadPartialMerge ==
    [][lastOp'.op = "load" =>
          /\ lastOp'.ret = Val("gui", lastOp'.gui)
          /\ guis' = guis
          /\ \A c \in Ctrl :
                 c \notin Named(lastOp'.gui, lastOp'.arg.obj, lastOp'.arg.recursive)
                     => ctrls'[c] = ctrls[c]]_vars

---------------------------------------------------------------------------
(* C11: openAnimated( v ) changes the state as open( v ) does: from any    *)
(* tree state the call leaves on every panel the closed flag that open( v )*)
(* would leave and makes the same calls of onOpen / onClose on the same    *)
(* controllers in the same order, all within the call, while the frame it  *)
(* requested is still pending; and a frame that runs later changes no      *)
(* closed flag and calls no callback.                                      *)
ClosedFlags(g) == [p \in 1..Len(g) |-> g[p]._closed]

C11_OpenAnimatedMatchesOpen ==
    [][ /\ lastOp'.op = "openAnimated" =>
             LET o == lastOp'.arg = Bool(TRUE)
                 ref == open(Here, lastOp'.gui, o)
             IN  /\ ClosedFlags(guis') = ClosedFlags(ref.guis)
                 /\ calls' = ref.calls
                 /\ ctrls' = ref.ctrls
                 /\ frames' = Append(frames, Frame(lastOp'.gui, o, FALSE))
        /\ lastOp'.op = "animationFrame" =>
             /\ ClosedFlags(guis') = ClosedFlags(guis)
             /\ calls' = <<>>
             /\ ctrls' = ctrls ]_vars

(* openAnimated( false ) has just closed a panel with a folder below it,   *)
(* callbacks were called in both panels and the frame has not run yet.     *)
C11_Witness ==
    /\ lastOp.op = "openAnimated"
    /\ guis[lastOp.gui]._closed
    /\ guis[lastOp.gui].folders # <<>>
    /\ \E i, j \in 1..Len(calls) :
           /\ i < j
           /\ ctrls[calls[i].id].parent = lastOp.gui
           /\ ctrls[calls[j].id].parent # lastOp.gui
    /\ frames # <<>>

---------------------------------------------------------------------------
(* C19: whenever no animation frame callback is pending, on every panel    *)
(* the 'closed' class of the element agrees with the closed flag,          *)
(* whatever the interleaving of open(), close() and openAnimated() calls   *)
(* with the frames.                                                        *)
C19_ClosedClassAgreesWhenIdle ==
    frames = <<>> => \A g \in Gui : guis[g].class_closed = guis[g]._closed

---------------------------------------------------------------------------
(* C12: add() selects the controller variant by the hint first and the     *)
(* type of the value second: with a hint that is an object, an array or a  *)
(* function an Option controller is created whatever the value is;         *)
(* otherwise a number gives a Number controller, a boolean a Boolean       *)
(* controller, a string a String controller and a function a Function      *)
(* controller.                                                             *)
ClassByRule(value, hint) ==
    IF hint.t \in {"object", "array", "function"} THEN "OptionController"
    ELSE IF value.t = "number" THEN "NumberController"
    ELSE IF value.t = "boolean" THEN "BooleanController"
    ELSE IF value.t = "string" THEN "StringController"
    ELSE IF value.t = "function" THEN "FunctionController"
    ELSE "none"

C12_AddSelectsVariant ==
    [][ (lastOp'.op = "add" /\ ClassByRule(lastOp'.arg.value, lastOp'.arg.hint) # "none")
            => /\ lastOp'.ret = Val("ctrl", Len(ctrls) + 1)
               /\ Len(ctrls') = Len(ctrls) + 1
               /\ ctrls'[Len(ctrls')].class
                      = ClassByRule(lastOp'.arg.value, lastOp'.arg.hint)
               /\ ctrls'[Len(ctrls')].parent = lastOp'.gui ]_vars

(* An options array was passed for a property that holds a number, and an  *)
(* Option controller was created.                                          *)
C12_Witness ==
    /\ lastOp.op = "add"
    /\ lastOp.arg.value.t = "number"
    /\ lastOp.arg.hint.t = "array"
    /\ lastOp.ret = Val("ctrl", Len(ctrls))
    /\ ctrls[Len(ctrls)].class = "OptionController"

---------------------------------------------------------------------------
(* C13: some value of the bound property makes add(), called without a     *)
(* hint, return a File controller: in every state there is a value of      *)
(* AddValues (one for each type a value can have) for which add() on the   *)
(* root creates a controller of the class FileController.                  *)
C13_SomeValueGivesFileController ==
    \E value \in AddValues :
        LET h == add(Here, 1, "x", value, Undefined, {})
        IN  /\ Len(h.ctrls) = Len(ctrls) + 1
            /\ h.ctrls[Len(h.ctrls)].class = "FileController"

---------------------------------------------------------------------------
(* C14: when the hint is a primitive and the value is neither a number, a  *)
(* boolean, a string nor a function, add() reports the failure to          *)
(* console.error on the panel, returns undefined instead of throwing, and  *)
(* leaves every panel (children, controllers and folders included) and     *)
(* every controller as it was.                                             *)
C14_AddFailsWithoutEffect ==
    [][ (lastOp'.op = "add" /\ ClassByRule(lastOp'.arg.value, lastOp'.arg.hint) = "none")
            => /\ calls' = <<Call("console.error", "gui", lastOp'.gui)>>
               /\ lastOp'.ret = Undefined
               /\ guis' = guis
               /\ ctrls' = ctrls ]_vars

(* add() of a property that holds null has just failed on a folder that    *)
(* has a controller already.                                               *)
C14_Witness ==
    /\ lastOp.op = "add"
    /\ lastOp.arg.value = Null
    /\ lastOp.arg.hint = Undefined
    /\ lastOp.ret = Undefined
    /\ lastOp.gui # 1
    /\ guis[lastOp.gui].children # <<>>
    /\ calls # <<>>

---------------------------------------------------------------------------
(* C16: addFolder( title ) on a panel at any depth returns a new panel     *)
(* whose parent is that panel and whose root is the panel reached by       *)
(* following the parent links to their end; the folder starts closed if    *)
(* the root was constructed with closeFolders and open if it was not.      *)
RECURSIVE RootByParents(_, _)
RootByParents(g, gui) ==
    IF g[gui].parent = 0 THEN gui ELSE RootByParents(g, g[gui].parent)

C16_AddFolderLinksAndClosed ==
    [][ lastOp'.op = "addFolder"
            => LET folder == Len(guis) + 1
               IN  /\ Len(guis') = folder
                   /\ lastOp'.ret = Val("gui", folder)
                   /\ guis'[folder].parent = lastOp'.gui
                   /\ guis'[folder].root = RootByParents(guis', folder)
                   /\ guis'[folder].root = guis[lastOp'.gui].root
                   /\ guis'[folder]._closed
                          = guis[RootByParents(guis, lastOp'.gui)]._closeFolders
                   /\ guis'[folder]._title = "a" ]_vars

(* A folder was added to a folder of a root constructed with closeFolders, *)
(* and it is closed.                                                       *)
C16_Witness ==
    /\ lastOp.op = "addFolder"
    /\ guis[lastOp.gui].parent # 0
    /\ guis[1]._closeFolders
    /\ guis[Len(guis)]._closed
    /\ guis[Len(guis)].parent = lastOp.gui

---------------------------------------------------------------------------
(* C17: controllersRecursive() on a panel returns the panel's own          *)
(* controllers in their order followed by the controllers of each child    *)
(* folder's subtree in folder order (pre-order); the result holds every    *)
(* controller whose panel is the panel or a folder below it, each once;    *)
(* and the call leaves the panel's controllers list, and every other       *)
(* list, as it was.                                                        *)
C17_ControllersRecursivePreOrder ==
    [][ lastOp'.op = "controllersRecursive"
            => LET gui == lastOp'.gui
                   result == lastOp'.ret.v
                   own == guis[gui].controllers
               IN  /\ result = PreOrder(gui)
                   /\ SubSeq(result, 1, Len(own)) = own
                   /\ NoDuplicates(result)
                   /\ Range(result) =
                          {c \in Ctrl : ctrls[c].parent \in {gui} \cup FoldersBelow(Here, gui)}
                   /\ guis' = guis
                   /\ ctrls' = ctrls ]_vars

(* The flattening of a panel whose own controller was created after the    *)
(* one of a folder two levels below: the own controller comes first.       *)
C17_Witness ==
    /\ lastOp.op = "controllersRecursive"
    /\ lastOp.ret.v = <<2, 1>>
    /\ ctrls[2].parent = lastOp.gui
    /\ guis[ctrls[1].parent].parent \notin {0, lastOp.gui}

---------------------------------------------------------------------------
(* C15: the snapshot save( recursive ) returns for a panel has a           *)
(* controllers mapping with exactly one entry for each controller of the   *)
(* panel that is not a Function controller, under the controller's name    *)
(* and holding its saved value, and no other entry; with recursive it has  *)
(* a folders mapping with exactly one entry for each child folder, under   *)
(* the folder's title and holding the recursive snapshot of that folder.   *)
(* Without recursive it has no folders mapping (as stated), or an empty    *)
(* one (as amended).                                                       *)
SavedControllers(p) ==
    {c \in Range(guis[p].controllers) : ctrls[c].class # "FunctionController"}

ControllersMapOf(obj, p) ==
    /\ obj.t = "object"
    /\ DOMAIN obj.v = {ctrls[c]._name : c \in SavedControllers(p)}
    /\ Cardinality(DOMAIN obj.v) = Cardinality(SavedControllers(p))
    /\ \A c \in SavedControllers(p) : obj.v[ctrls[c]._name] = ctrls[c].value

RECURSIVE SnapshotOf(_, _, _, _)
SnapshotOf(obj, p, recursive, emptyFolders) ==
    /\ obj.t = "object"
    /\ "controllers" \in DOMAIN obj.v
    /\ ControllersMapOf(obj.v["controllers"], p)
    /\ IF recursive
       THEN /\ DOMAIN obj.v = {"controllers", "folders"}
            /\ obj.v["folders"].t = "object"
            /\ DOMAIN obj.v["folders"].v = {guis[f]._title : f \in Range(guis[p].folders)}
            /\ Cardinality(DOMAIN obj.v["folders"].v) = Len(guis[p].folders)
            /\ \A f \in Range(guis[p].folders) :
                   SnapshotOf(obj.v["folders"].v[guis[f]._title], f, TRUE, emptyFolders)
       ELSE IF emptyFolders
            THEN DOMAIN obj.v = {"controllers", "folders"}
                 /\ obj.v["folders"] = Obj(EmptyMap)
            ELSE DOMAIN obj.v = {"controllers"}

(* C15 as stated: the folders mapping is present only when recursive is    *)
(* true.                                                                   *)
C15_SnapshotFoldersOnlyIfRecursive ==
    (lastOp.op = "save" /\ ~IsThrow(lastOp.ret))
        => SnapshotOf(lastOp.ret, lastOp.gui, lastOp.arg = Bool(TRUE), FALSE)

(* C15 as amended: the folders mapping is always present, and empty when   *)
(* recursive is false.                                                     *)
C15_SnapshotShape ==
    (lastOp.op = "save" /\ ~IsThrow(lastOp.ret))
        => SnapshotOf(lastOp.ret, lastOp.gui, lastOp.arg = Bool(TRUE), TRUE)

(* save( false ) has returned a snapshot of a panel that has a folder, a   *)
(* Function controller and a controller that is saved.                     *)
C15_Witness ==
    /\ lastOp.op = "save"
    /\ lastOp.arg = Bool(FALSE)
    /\ ~IsThrow(lastOp.ret)
    /\ guis[lastOp.gui].folders # <<>>
    /\ SavedControllers(lastOp.gui) # {}
    /\ SavedControllers(lastOp.gui) # Range(guis[lastOp.gui].controllers)

---------------------------------------------------------------------------
(* C18: the page never holds more than one style sheet of the library,     *)
(* however many roots are constructed and whatever their injectStyles      *)
(* options; a constructor call installs at most one, installs none once    *)
(* the flag is set or when injectStyles is false, and addFolder (the       *)
(* constructor called with a parent) never installs one nor touches the    *)
(* flag.                                                                   *)
C18_StylesInstalledAtMostOnce ==
    [][ /\ styleSheets <= 1
        /\ styleSheets' <= 1
        /\ styleSheets' >= styleSheets
        /\ stylesInjected' = (styleSheets' = 1)
        /\ lastOp'.op = "new GUI" =>
               styleSheets' = IF lastOp'.arg.injectStyles /\ ~lastOp'.arg.injected
                              THEN styleSheets + 1 ELSE styleSheets
        /\ lastOp'.op = "addFolder" =>
               (styleSheets' = styleSheets /\ stylesInjected' = stylesInjected) ]_vars

(* A third root was constructed with injectStyles after the style sheet    *)
(* had been installed by a root before it, and the page still holds one.   *)
C18_Witness ==
    /\ lastOp.op = "new GUI"
    /\ lastOp.gui = 3
    /\ lastOp.arg.injectStyles
    /\ lastOp.arg.injected
    /\ \A g \in Gui : guis[g].parent = 0
    /\ styleSheets = 1

---------------------------------------------------------------------------
(* C20: save() throws only when two sibling controllers of the saved tree  *)
(* that are not Function controllers share a name or two sibling folders   *)
(* of it share a title; on a tree without such a pair save() returns a     *)
(* snapshot, whatever the names and titles are.                            *)
C20_SaveThrowsOnlyOnDuplicate ==
    (lastOp.op = "save" /\ IsThrow(lastOp.ret))
        => DuplicateInSavedTree(lastOp.gui, lastOp.arg = Bool(TRUE), FALSE)

=============================================================================
